---- MODULE Spec2Model ----
(***************************************************************************)
(* A model of the REST backend of the 99acres clone: the property router,  *)
(* the user router (favorites) and the admin router, over a document store *)
(* holding the User and Property collections.                              *)
(*                                                                         *)
(* A handler that reads a document, awaits, and writes it back is two      *)
(* steps (the read and the write) with the request held in reqs between     *)
(* them, so that requests interleave where the code awaits.  A handler     *)
(* with one store call is one step.                                        *)
(***************************************************************************)
EXTENDS Integers, Sequences, FiniteSets, Bags, TLC

VARIABLES
    users,      \* the User collection: id -> [role, favorites]
    props,      \* the Property collection: id -> document (a record)
    created,    \* how many Property documents were ever created (ids are not reused)
    reqs,       \* the bag of requests in flight between two store calls
    resp        \* the last response sent

vars == <<users, props, created, reqs, resp>>

----------------------------------------------------------------------------
(* Bounds of the model *)

MaxProps == 2       \* Property documents ever created
MaxRaced == 1       \* Property documents ever created where requests interleave
MaxViews == 2       \* detail fetches counted per property
MaxInq == 2         \* inquiries per property
MaxFav == 2         \* entries of a favorites list
MaxLimit == 3       \* largest ?limit= value supplied
MaxSlots == 2       \* requests in flight at once

----------------------------------------------------------------------------
(* Values *)

Users == {"u1", "u2", "a1"}
Tokens == Users \cup {"anon"}           \* "anon": a missing or invalid credential
Roles == {"user", "agent", "admin"}
Statuses == {"active", "pending", "sold", "rented"}

InitRole(u) == IF u = "a1" THEN "admin" ELSE IF u = "u2" THEN "agent" ELSE "user"

PropIdSeq == <<"p1", "p2", "p3", "p4">>
AllPropIds == {PropIdSeq[i] : i \in 1..Len(PropIdSeq)}
PropIds == {PropIdSeq[i] : i \in 1..MaxProps}
\* what a client may put in the place of :id
PathSegs == PropIds \cup {"search"}
RacedSegs == {PropIdSeq[i] : i \in 1..MaxRaced} \cup {"search"}

\* a string that casts to an ObjectId (24 hex digits); "search" and "me" do not
IsObjectId(text) == text \in AllPropIds \cup Users \cup {"u9"}

\* {...a, ...b}: the keys of b override those of a
Merge(a, b) == [k \in DOMAIN a \cup DOMAIN b |-> IF k \in DOMAIN b THEN b[k] ELSE a[k]]

----------------------------------------------------------------------------
(* Texts.  A value of req.query is a string; where the code looks inside   *)
(* one (Number, RegExp, split) it is written as the sequence of its        *)
(* characters.                                                             *)

Digits == <<"0", "1", "2", "3", "4", "5", "6", "7", "8", "9">>
IsDigit(ch) == \E i \in 1..Len(Digits) : Digits[i] = ch
DigitVal(ch) == (CHOOSE i \in 1..Len(Digits) : Digits[i] = ch) - 1

\* the texts Number() turns into a number other than NaN, among the ones
\* used here: the non-empty runs of digits
IsNumeric(text) == text # <<>> /\ \A i \in 1..Len(text) : IsDigit(text[i])

\* Number(text) of such a text
RECURSIVE JsNumberOf(_)
JsNumberOf(text) ==
    IF text = <<>> THEN 0
    ELSE 10 * JsNumberOf(SubSeq(text, 1, Len(text) - 1)) + DigitVal(text[Len(text)])

\* if (param): undefined and '' are falsy, every other string is truthy
Truthy(q, k) == k \in DOMAIN q /\ q[k] # <<>>

UpperCase == <<"A", "E", "G", "H", "M", "N", "O", "P", "U">>
LowerCase == <<"a", "e", "g", "h", "m", "n", "o", "p", "u">>
Lower(ch) ==
    IF \E i \in 1..Len(UpperCase) : UpperCase[i] = ch
    THEN LowerCase[CHOOSE i \in 1..Len(UpperCase) : UpperCase[i] = ch]
    ELSE ch
FoldCase(text) == [i \in 1..Len(text) |-> Lower(text[i])]

IsInfix(a, b) == \E i \in 0..(Len(b) - Len(a)) : SubSeq(b, i + 1, i + Len(a)) = a

\* new RegExp(pattern, 'i').test(text), for a pattern of letters only
RegExpI(pattern, text) == IsInfix(FoldCase(pattern), FoldCase(text))

\* text.split(',')
RECURSIVE Split(_)
Split(text) ==
    IF \E i \in 1..Len(text) : text[i] = ","
    THEN LET i == CHOOSE j \in 1..Len(text) :
                      text[j] = "," /\ \A h \in 1..(j - 1) : text[h] # ","
         IN  <<SubSeq(text, 1, i - 1)>> \o Split(SubSeq(text, i + 1, Len(text)))
    ELSE <<text>>

House == <<"H", "o", "u", "s", "e">>
Villa == <<"V", "i", "l", "l", "a">>
Sale == <<"S", "a", "l", "e">>
Rent == <<"R", "e", "n", "t">>
Pune == <<"P", "u", "n", "e">>
Goa == <<"G", "o", "a">>
Gym == <<"G", "y", "m">>
Lift == <<"L", "i", "f", "t">>

----------------------------------------------------------------------------
(* Responses.  keys is the set of top-level keys of the JSON body. *)

MsgKeys == {"success", "message"}
ErrKeys == {"success", "message", "error"}
ValKeys == {"errors"}
DataKeys == {"success", "data"}
PageKeys == {"success", "data", "pagination"}
NoData == [none |-> TRUE]
NoUser == [id |-> "none", role |-> "none"]

\* the response to request (router, method, path), sent by handler h
Reply(router, method, path, h, status, keys, msg, user, data) ==
    [router |-> router, method |-> method, path |-> path, h |-> h,
     status |-> status, keys |-> keys, message |-> msg, user |-> user,
     data |-> data]

\* resp while the request of the last step awaits its store call: a step
\* that sends no response leaves this
Pending ==
    [router |-> "none", method |-> "none", path |-> <<>>, h |-> "none",
     status |-> 0, keys |-> {}, message |-> "", user |-> NoUser, data |-> NoData]

\* JavaScript numbers as far as pagination needs them
JsNum(n) == [t |-> "number", v |-> n]
JsNaN == [t |-> "NaN", v |-> 0]
JsInfinity == [t |-> "Infinity", v |-> 0]

----------------------------------------------------------------------------
(* Middleware *)

\* protect: authenticates the bearer credential and sets req.user
Protect(tok) ==
    IF tok \in Users
    THEN [ok |-> TRUE, user |-> [id |-> tok, role |-> users[tok].role]]
    ELSE [ok |-> FALSE, user |-> NoUser]

\* authorize(...roles): lets the request through when req.user.role is one of roles
Authorize(roles, user) == user.role \in roles

\* propertyValidation: the express-validator chain of the property router;
\* the required fields are represented by title and price
PropertyValidation(body) == "title" \in DOMAIN body /\ "price" \in DOMAIN body

\* one router-level middleware: whether it calls next(), the response it
\* sends otherwise, and req.user after it
Guard(name, tok, user) ==
    IF name = "protect"
    THEN [ok |-> Protect(tok).ok, status |-> 401, message |-> "Not authorized",
          user |-> Protect(tok).user]
    ELSE [ok |-> Authorize({"admin"}, user), status |-> 403,
          message |-> "Not authorized for this route", user |-> user]

\* the middleware of chain from position i on, each run only when the ones
\* before it called next(); by is the one that answered, "" when all passed
RECURSIVE RunChain(_, _, _, _)
RunChain(chain, i, tok, user) ==
    IF i > Len(chain) THEN [ok |-> TRUE, by |-> "", status |-> 0, message |-> "", user |-> user]
    ELSE LET g == Guard(chain[i], tok, user) IN
         IF g.ok THEN RunChain(chain, i + 1, tok, g.user)
         ELSE [ok |-> FALSE, by |-> chain[i], status |-> g.status, message |-> g.message,
               user |-> g.user]

----------------------------------------------------------------------------
(* Router tables, in registration order.  Express runs the first route     *)
(* whose method and path pattern match.                                    *)

Param(n) == [param |-> TRUE, name |-> n]
Lit(n) == [param |-> FALSE, name |-> n]
Route(m, pat, h) == [method |-> m, pattern |-> pat, handler |-> h]

PropertyRoutes ==
    << Route("POST", <<>>, "createProperty"),
       Route("GET", <<>>, "listProperties"),
       Route("GET", <<Param("id")>>, "getProperty"),
       Route("PUT", <<Param("id")>>, "updateProperty"),
       Route("DELETE", <<Param("id")>>, "deleteProperty"),
       Route("POST", <<Param("id"), Lit("inquiries")>>, "addInquiry"),
       Route("GET", <<Lit("search")>>, "searchProperties") >>

UserRoutes ==
    << Route("PUT", <<Lit("profile")>>, "updateProfile"),
       Route("POST", <<Lit("favorites"), Param("propertyId")>>, "addFavorite"),
       Route("DELETE", <<Lit("favorites"), Param("propertyId")>>, "removeFavorite") >>

\* the admin router without its authorize('admin') line
AdminUseProtectOnly == <<"protect">>

\* router.use(protect); router.use(authorize('admin')): run, in this order,
\* before every route of the admin router
AdminUse == <<"protect", "authorizeAdmin">>

AdminRoutes ==
    << Route("GET", <<Lit("users")>>, "listUsers"),
       Route("PUT", <<Lit("users"), Param("userId"), Lit("role")>>, "updateUserRole"),
       Route("GET", <<Lit("properties"), Lit("pending")>>, "listPending"),
       Route("PUT", <<Lit("properties"), Param("propertyId"), Lit("status")>>,
             "updatePropertyStatus"),
       Route("GET", <<Lit("dashboard")>>, "dashboard"),
       Route("GET", <<Lit("activities")>>, "activities") >>

PathMatches(pat, path) ==
    /\ Len(pat) = Len(path)
    /\ \A i \in 1..Len(pat) : pat[i].param \/ pat[i].name = path[i]

RouteMatches(r, method, path) == r.method = method /\ PathMatches(r.pattern, path)

Dispatch(routes, method, path) ==
    LET hits == {i \in 1..Len(routes) : RouteMatches(routes[i], method, path)}
    IN  IF hits = {} THEN "none"
        ELSE routes[CHOOSE i \in hits : \A j \in hits : i <= j].handler

----------------------------------------------------------------------------
(* The Property schema and the helpers of the property router *)

SchemaDefaults == [status |-> "pending", views |-> 0, inquiries |-> <<>>]

\* the schema's validators: bedrooms has min 0, status is an enum
SchemaValid(fields) ==
    /\ "bedrooms" \in DOMAIN fields => fields.bedrooms >= 0
    /\ "status" \in DOMAIN fields => fields.status \in Statuses

\* the spread written the other way round: the body's owner wins
CreateDocBodyLast(body, uid) == Merge(SchemaDefaults, Merge([owner |-> uid], body))

\* Property.create({...req.body, owner: req.user.id})
CreateDoc(body, uid) == Merge(SchemaDefaults, Merge(body, [owner |-> uid]))

\* findByIdAndUpdate(id, req.body): every key of the body is $set
UpdateDoc(doc, body) == Merge(doc, body)

\* the role compared with === in place of !==
MayUpdateWrongTest(owner, user) == ~(owner # user.id /\ user.role = "admin")

\* the ownership check of PUT /:id
MayUpdate(owner, user) == ~(owner # user.id /\ user.role # "admin")

\* the ownership check of DELETE /:id
MayDelete(owner, user) == ~(owner # user.id /\ user.role # "admin")

BaseBody(p) == [title |-> "t", price |-> p]

\* request bodies of POST / and PUT /:id: one without the required price,
\* plain ones, and ones that also name owner, status, views, inquiries or
\* an invalid bedrooms
Bodies ==
    {[title |-> "t"]}
    \cup {BaseBody(1)}
    \cup {Merge(BaseBody(1), [owner |-> u]) : u \in Users}
    \cup {Merge(BaseBody(1), [status |-> "sold"]),
          Merge(BaseBody(1), [views |-> 0]),
          Merge(BaseBody(1), [inquiries |-> <<>>]),
          Merge(BaseBody(1), [bedrooms |-> 0 - 1])}

NextPropId == PropIdSeq[created + 1]

\* fewer than n requests are in flight
Room(n) == BagCardinality(reqs) < n

InFlight == BagToSet(reqs)
Hold(r) == reqs' = reqs (+) SetToBag({r}) /\ resp' = Pending
Release(r) == reqs' = reqs (-) SetToBag({r})

\* the query strings of GET /properties: limit, minPrice and maxPrice, each
\* present or not (limit is written as its value)
LimitQueries == {<<>>} \cup {[limit |-> n] : n \in 0..MaxLimit}

ListQueries ==
    {Merge(a, b) : a \in LimitQueries, b \in {<<>>, [minPrice |-> <<"2">>], [maxPrice |-> <<"1">>]}}

\* the filter whose price part asks for both bounds before it is built
BuildQueryPriceNeedsBoth(q) ==
    LET Eq(k) == IF Truthy(q, k) THEN [x \in {k} |-> q[k]] ELSE <<>>
        Re(k) == IF Truthy(q, k) THEN [x \in {k} |-> [regex |-> q[k]]] ELSE <<>>
    IN  Merge(Eq("propertyType"), Merge(Eq("listingType"),
        Merge(Re("city"), Merge(Re("state"),
        Merge(Eq("bedrooms"), Merge(Eq("bathrooms"),
        Merge(IF Truthy(q, "amenities") THEN [amenities |-> [in |-> Split(q.amenities)]]
              ELSE <<>>,
              IF Truthy(q, "minPrice") /\ Truthy(q, "maxPrice")
              THEN [price |-> [gte |-> q.minPrice, lte |-> q.maxPrice]]
              ELSE <<>>)))))))

\* the filter built by GET /properties: one key for each parameter that is
\* truthy; the price bounds are still the texts Number() is applied to
BuildQuery(q) ==
    LET Eq(k) == IF Truthy(q, k) THEN [x \in {k} |-> q[k]] ELSE <<>>
        Re(k) == IF Truthy(q, k) THEN [x \in {k} |-> [regex |-> q[k]]] ELSE <<>>
    IN  Merge(Eq("propertyType"), Merge(Eq("listingType"),
        Merge(Re("city"), Merge(Re("state"),
        Merge(Eq("bedrooms"), Merge(Eq("bathrooms"),
        Merge(IF Truthy(q, "amenities") THEN [amenities |-> [in |-> Split(q.amenities)]]
              ELSE <<>>,
              IF Truthy(q, "minPrice") \/ Truthy(q, "maxPrice")
              THEN [price |-> Merge(IF Truthy(q, "minPrice") THEN [gte |-> q.minPrice]
                                    ELSE <<>>,
                                    IF Truthy(q, "maxPrice") THEN [lte |-> q.maxPrice]
                                    ELSE <<>>)]
              ELSE <<>>)))))))

\* the store casts each Number path of the filter; a NaN (price bounds) or
\* a text that is no number (bedrooms, bathrooms) is a CastError
CastFails(filter) ==
    \/ \E k \in {"bedrooms", "bathrooms"} \cap DOMAIN filter : ~IsNumeric(filter[k])
    \/ /\ "price" \in DOMAIN filter
       /\ \E k \in DOMAIN filter.price : ~IsNumeric(filter.price[k])

\* whether a Property document matches a filter that casts
Matches(doc, filter) ==
    /\ \A k \in {"propertyType", "listingType"} \cap DOMAIN filter :
            k \in DOMAIN doc /\ doc[k] = filter[k]
    /\ \A k \in {"city", "state"} \cap DOMAIN filter :
            k \in DOMAIN doc /\ RegExpI(filter[k].regex, doc[k])
    /\ \A k \in {"bedrooms", "bathrooms"} \cap DOMAIN filter :
            k \in DOMAIN doc /\ doc[k] = JsNumberOf(filter[k])
    /\ "amenities" \in DOMAIN filter =>
            /\ "amenities" \in DOMAIN doc
            /\ \E i \in 1..Len(filter.amenities.in) : filter.amenities.in[i] \in doc.amenities
    /\ "price" \in DOMAIN filter =>
            /\ "gte" \in DOMAIN filter.price => doc.price >= JsNumberOf(filter.price.gte)
            /\ "lte" \in DOMAIN filter.price => doc.price <= JsNumberOf(filter.price.lte)

\* Property.find(query): the ids of the documents that match
Find(docs, filter) == {p \in DOMAIN docs : Matches(docs[p], filter)}

\* const { limit = 10 } = req.query
LimitOf(q) == IF "limit" \in DOMAIN q THEN q.limit ELSE 10

\* Math.ceil(total / limit), for total >= 0 and limit >= 0
PagesOf(total, limit) ==
    IF limit = 0 THEN (IF total = 0 THEN JsNaN ELSE JsInfinity)
    ELSE JsNum((total + limit - 1) \div limit)

Min(a, b) == IF a < b THEN a ELSE b

----------------------------------------------------------------------------
Init ==
    /\ users = [u \in Users |-> [role |-> InitRole(u), favorites |-> <<>>]]
    /\ props = <<>>
    /\ created = 0
    /\ reqs = EmptyBag
    /\ resp = Pending

----------------------------------------------------------------------------
(* The property router *)

\* POST /properties
CreateProperty(tok, body, cap) ==
    LET auth == Protect(tok)
        doc == CreateDoc(body, auth.user.id)
        R(status, keys, msg, data) ==
            Reply("properties", "POST", <<>>, "createProperty", status, keys, msg,
                  auth.user, data)
    IN
    /\ Dispatch(PropertyRoutes, "POST", <<>>) = "createProperty"
    /\ UNCHANGED <<users, reqs>>
    /\ IF ~auth.ok THEN
            /\ resp' = R(401, MsgKeys, "Not authorized", NoData)
            /\ UNCHANGED <<props, created>>
       ELSE IF ~PropertyValidation(body) THEN
            /\ resp' = R(400, ValKeys, "", NoData)
            /\ UNCHANGED <<props, created>>
       ELSE IF ~SchemaValid(doc) THEN
            /\ resp' = R(500, ErrKeys, "Error creating property", NoData)
            /\ UNCHANGED <<props, created>>
       ELSE
            /\ created < cap
            /\ props' = Merge(props, [p \in {NextPropId} |-> doc])
            /\ created' = created + 1
            /\ resp' = R(201, DataKeys, "",
                         [id |-> NextPropId,
                          bodyOwner |-> IF "owner" \in DOMAIN body THEN body.owner
                                        ELSE "none"])

\* GET /properties
ListProperties(q) ==
    LET filter == BuildQuery(q)
        found == Find(props, filter)
        total == Cardinality(found)
        R(status, keys, msg, data) ==
            Reply("properties", "GET", <<>>, "listProperties", status, keys, msg,
                  NoUser, data)
    IN
    /\ Dispatch(PropertyRoutes, "GET", <<>>) = "listProperties"
    /\ UNCHANGED <<users, props, created, reqs>>
    /\ IF CastFails(filter)
       THEN resp' = R(500, ErrKeys, "Error fetching properties", [query |-> q])
       ELSE resp' = R(200, PageKeys, "",
                      [query |-> q, found |-> found, total |-> total,
                       pages |-> PagesOf(total, LimitOf(q))])

\* GET /properties/<seg>?q=<q>, up to the handler's first await.  The
\* router picks the handler; the detail handler reads the document and
\* holds it until its save.
GetBySegment(n, seg, q) ==
    LET h == Dispatch(PropertyRoutes, "GET", <<seg>>)
        R(status, keys, msg, data) ==
            Reply("properties", "GET", <<seg>>, h, status, keys, msg, NoUser, data)
        found == Cardinality({p \in DOMAIN props : props[p].title = q})
    IN
    /\ Room(n)
    /\ UNCHANGED <<users, props, created>>
    /\ IF h = "searchProperties" THEN
            /\ UNCHANGED reqs
            /\ resp' = IF q = ""
                       THEN R(400, MsgKeys, "Search query is required", [q |-> q])
                       ELSE R(200, DataKeys, "", [q |-> q, count |-> Min(found, 10)])
       ELSE IF ~IsObjectId(seg) THEN        \* findById throws a CastError
            /\ UNCHANGED reqs
            /\ resp' = R(500, ErrKeys, "Error fetching property", [q |-> q])
       ELSE IF seg \notin DOMAIN props THEN
            /\ UNCHANGED reqs
            /\ resp' = R(404, MsgKeys, "Property not found", [q |-> q])
       ELSE
            /\ props[seg].views < MaxViews
            /\ Hold([op |-> "get", id |-> seg, views |-> props[seg].views])

\* GET /properties/:id, from "property.views += 1" on: the save writes the
\* views the handler computed from the document it read
GetPropertySave(r) ==
    LET R(status, keys, msg, data) ==
            Reply("properties", "GET", <<r.id>>, "getProperty", status, keys, msg,
                  NoUser, data)
    IN
    /\ r \in InFlight
    /\ r.op = "get"
    /\ Release(r)
    /\ UNCHANGED <<users, created>>
    /\ IF r.id \in DOMAIN props THEN
            /\ props' = [props EXCEPT ![r.id].views = r.views + 1]
            /\ resp' = R(200, DataKeys, "", [views |-> r.views + 1])
       ELSE \* the document was deleted meanwhile: save() updates nothing, and
            \* depending on the Mongoose version reports it or not
            /\ UNCHANGED props
            /\ \/ resp' = R(200, DataKeys, "", [views |-> r.views + 1])
               \/ resp' = R(500, ErrKeys, "Error fetching property", NoData)

\* PUT /properties/:id up to the ownership check
UpdateRead(n, tok, seg, body) ==
    LET auth == Protect(tok)
        R(status, keys, msg) ==
            Reply("properties", "PUT", <<seg>>, "updateProperty", status, keys, msg,
                  auth.user, [bodyValid |-> PropertyValidation(body)])
    IN
    /\ Dispatch(PropertyRoutes, "PUT", <<seg>>) = "updateProperty"
    /\ Room(n)
    /\ UNCHANGED <<users, props, created>>
    /\ IF ~auth.ok THEN
            UNCHANGED reqs /\ resp' = R(401, MsgKeys, "Not authorized")
       ELSE IF ~PropertyValidation(body) THEN
            UNCHANGED reqs /\ resp' = R(400, ValKeys, "")
       ELSE IF ~IsObjectId(seg) THEN
            UNCHANGED reqs /\ resp' = R(500, ErrKeys, "Error updating property")
       ELSE IF seg \notin DOMAIN props THEN
            UNCHANGED reqs /\ resp' = R(404, MsgKeys, "Property not found")
       ELSE IF ~MayUpdate(props[seg].owner, auth.user) THEN
            UNCHANGED reqs
            /\ resp' = R(403, MsgKeys, "Not authorized to update this property")
       ELSE
            /\ Hold([op |-> "update", id |-> seg, user |-> auth.user,
                        owner |-> props[seg].owner])

\* PUT /properties/:id: findByIdAndUpdate(id, req.body, {runValidators}).
\* The body is the request's, which passed propertyValidation; nothing
\* reads it before this step, so it is drawn here.
UpdateWrite(r, body) ==
    LET R(status, keys, msg, data) ==
            Reply("properties", "PUT", <<r.id>>, "updateProperty", status, keys, msg,
                  r.user, data)
    IN
    /\ r \in InFlight
    /\ r.op = "update"
    /\ PropertyValidation(body)
    /\ Release(r)
    /\ UNCHANGED <<users, created>>
    /\ IF ~SchemaValid(body) THEN
            /\ UNCHANGED props
            /\ resp' = R(500, ErrKeys, "Error updating property", NoData)
       ELSE IF r.id \in DOMAIN props THEN
            /\ props' = [props EXCEPT ![r.id] = UpdateDoc(props[r.id], body)]
            /\ resp' = R(200, DataKeys, "", [owner |-> props'[r.id].owner])
       ELSE
            /\ UNCHANGED props
            /\ resp' = R(200, DataKeys, "", NoData)

\* DELETE /properties/:id up to the ownership check
DeleteRead(n, tok, seg) ==
    LET auth == Protect(tok)
        R(status, keys, msg) ==
            Reply("properties", "DELETE", <<seg>>, "deleteProperty", status, keys,
                  msg, auth.user, NoData)
    IN
    /\ Dispatch(PropertyRoutes, "DELETE", <<seg>>) = "deleteProperty"
    /\ Room(n)
    /\ UNCHANGED <<users, props, created>>
    /\ IF ~auth.ok THEN
            UNCHANGED reqs /\ resp' = R(401, MsgKeys, "Not authorized")
       ELSE IF ~IsObjectId(seg) THEN
            UNCHANGED reqs /\ resp' = R(500, ErrKeys, "Error deleting property")
       ELSE IF seg \notin DOMAIN props THEN
            UNCHANGED reqs /\ resp' = R(404, MsgKeys, "Property not found")
       ELSE IF ~MayDelete(props[seg].owner, auth.user) THEN
            UNCHANGED reqs
            /\ resp' = R(403, MsgKeys, "Not authorized to delete this property")
       ELSE
            /\ Hold([op |-> "delete", id |-> seg, user |-> auth.user,
                        owner |-> props[seg].owner])

\* DELETE /properties/:id: property.remove()
DeleteWrite(r) ==
    /\ r \in InFlight
    /\ r.op = "delete"
    /\ Release(r)
    /\ UNCHANGED <<users, created>>
    /\ props' = [p \in DOMAIN props \ {r.id} |-> props[p]]
    /\ resp' = Reply("properties", "DELETE", <<r.id>>, "deleteProperty", 200, MsgKeys,
                     "Property deleted successfully", r.user, NoData)

\* POST /properties/:id/inquiries: the push is saved as a $push of the new
\* entry, so the read and the save are one step
AddInquiry(tok, seg) ==
    LET auth == Protect(tok)
        R(status, keys, msg) ==
            Reply("properties", "POST", <<seg, "inquiries">>, "addInquiry", status,
                  keys, msg, auth.user, NoData)
    IN
    /\ Dispatch(PropertyRoutes, "POST", <<seg, "inquiries">>) = "addInquiry"
    /\ UNCHANGED <<users, created, reqs>>
    /\ IF ~auth.ok THEN
            UNCHANGED props /\ resp' = R(401, MsgKeys, "Not authorized")
       ELSE IF ~IsObjectId(seg) THEN
            UNCHANGED props /\ resp' = R(500, ErrKeys, "Error adding inquiry")
       ELSE IF seg \notin DOMAIN props THEN
            UNCHANGED props /\ resp' = R(404, MsgKeys, "Property not found")
       ELSE
            /\ Len(props[seg].inquiries) < MaxInq
            /\ props' = [props EXCEPT ![seg].inquiries =
                            Append(@, [user |-> auth.user.id, message |-> "m"])]
            /\ resp' = R(201, MsgKeys, "Inquiry added successfully")

----------------------------------------------------------------------------
(* The user router: favorites *)

\* includes comparing ObjectIds with the id's text by identity: never equal
FavoritesIncludeByIdentity(favs, pid) == \E i \in 1..Len(favs) : favs[i] = pid /\ FALSE

\* user.favorites.includes(id): a Mongoose array casts the id before comparing
FavoritesInclude(favs, pid) == \E i \in 1..Len(favs) : favs[i] = pid

RECURSIVE Without(_, _)
\* favorites.filter(id => id.toString() !== propertyId)
Without(favs, pid) ==
    IF favs = <<>> THEN <<>>
    ELSE IF Head(favs) = pid THEN Without(Tail(favs), pid)
    ELSE <<Head(favs)>> \o Without(Tail(favs), pid)

\* POST /users/favorites/:propertyId up to the duplicate check
AddFavoriteRead(n, tok, pid) ==
    LET auth == Protect(tok)
        R(status, keys, msg) ==
            Reply("users", "POST", <<"favorites", pid>>, "addFavorite", status, keys,
                  msg, auth.user, NoData)
    IN
    /\ Dispatch(UserRoutes, "POST", <<"favorites", pid>>) = "addFavorite"
    /\ Room(n)
    /\ UNCHANGED <<users, props, created>>
    /\ IF ~auth.ok THEN
            UNCHANGED reqs /\ resp' = R(401, MsgKeys, "Not authorized")
       ELSE IF ~IsObjectId(pid) THEN
            UNCHANGED reqs /\ resp' = R(500, ErrKeys, "Error adding to favorites")
       ELSE IF pid \notin DOMAIN props THEN
            UNCHANGED reqs /\ resp' = R(404, MsgKeys, "Property not found")
       ELSE IF FavoritesInclude(users[auth.user.id].favorites, pid) THEN
            UNCHANGED reqs /\ resp' = R(400, MsgKeys, "Property already in favorites")
       ELSE
            /\ Len(users[auth.user.id].favorites) < MaxFav
            /\ Hold([op |-> "addFavorite", id |-> pid, user |-> auth.user])

\* the save written as $addToSet: an id the stored list holds is not added
PushFavoriteAddToSet(favs, pid) == IF FavoritesInclude(favs, pid) THEN favs ELSE Append(favs, pid)

\* user.favorites.push(id); user.save(): a $push of the id onto the stored
\* array, whatever it holds by then (no version condition)
PushFavorite(favs, pid) == Append(favs, pid)

\* POST /users/favorites/:propertyId: the push, saved as a $push of the id
AddFavoriteSave(r) ==
    /\ r \in InFlight
    /\ r.op = "addFavorite"
    /\ Len(users[r.user.id].favorites) < MaxFav
    /\ Release(r)
    /\ UNCHANGED <<props, created>>
    /\ users' = [users EXCEPT ![r.user.id].favorites = PushFavorite(@, r.id)]
    /\ resp' = Reply("users", "POST", <<"favorites", r.id>>, "addFavorite", 200, MsgKeys,
                     "Property added to favorites", r.user, NoData)

\* DELETE /users/favorites/:propertyId up to the membership check
RemoveFavoriteRead(n, tok, pid) ==
    LET auth == Protect(tok)
        R(status, keys, msg) ==
            Reply("users", "DELETE", <<"favorites", pid>>, "removeFavorite", status,
                  keys, msg, auth.user, NoData)
    IN
    /\ Dispatch(UserRoutes, "DELETE", <<"favorites", pid>>) = "removeFavorite"
    /\ Room(n)
    /\ UNCHANGED <<users, props, created>>
    /\ IF ~auth.ok THEN
            UNCHANGED reqs /\ resp' = R(401, MsgKeys, "Not authorized")
       ELSE IF ~FavoritesInclude(users[auth.user.id].favorites, pid) THEN
            UNCHANGED reqs /\ resp' = R(400, MsgKeys, "Property not in favorites")
       ELSE
            Hold([op |-> "removeFavorite", id |-> pid, user |-> auth.user,
                     favorites |-> users[auth.user.id].favorites])

\* DELETE /users/favorites/:propertyId: the filtered list the handler
\* computed from the user it read is saved whole
RemoveFavoriteSave(r) ==
    /\ r \in InFlight
    /\ r.op = "removeFavorite"
    /\ Release(r)
    /\ UNCHANGED <<props, created>>
    /\ users' = [users EXCEPT ![r.user.id].favorites = Without(r.favorites, r.id)]
    /\ resp' = Reply("users", "DELETE", <<"favorites", r.id>>, "removeFavorite", 200,
                     MsgKeys, "Property removed from favorites", r.user, NoData)

----------------------------------------------------------------------------
(* The admin router *)

\* the query strings of the admin listings: limit and, for users, role
AdminQueries ==
    {Merge(a, b) : a \in LimitQueries, b \in {<<>>, [role |-> "user"], [role |-> "admin"]}}

\* the response of the router-level middleware that stopped the request
Refused(g, method, path) ==
    Reply("admin", method, path, g.by, g.status, MsgKeys, g.message, g.user, NoData)

\* GET /admin/users
ListUsers(tok, q) ==
    LET g == RunChain(AdminUse, 1, tok, NoUser)
        total == Cardinality({u \in Users : "role" \in DOMAIN q => users[u].role = q.role})
    IN
    /\ Dispatch(AdminRoutes, "GET", <<"users">>) = "listUsers"
    /\ UNCHANGED <<users, props, created, reqs>>
    /\ resp' = IF ~g.ok THEN Refused(g, "GET", <<"users">>)
               ELSE Reply("admin", "GET", <<"users">>, "listUsers", 200, PageKeys, "",
                          g.user, [query |-> q, total |-> total,
                                   pages |-> PagesOf(total, LimitOf(q))])

\* PUT /admin/users/:userId/role
UpdateUserRole(tok, userId, role) ==
    LET g == RunChain(AdminUse, 1, tok, NoUser)
        path == <<"users", userId, "role">>
        R(status, keys, msg) ==
            Reply("admin", "PUT", path, "updateUserRole", status, keys, msg, g.user, NoData)
    IN
    /\ Dispatch(AdminRoutes, "PUT", path) = "updateUserRole"
    /\ UNCHANGED <<props, created, reqs>>
    /\ IF ~g.ok THEN
            UNCHANGED users /\ resp' = Refused(g, "PUT", path)
       ELSE IF role \notin Roles THEN
            UNCHANGED users /\ resp' = R(400, ValKeys, "")
       ELSE IF ~IsObjectId(userId) THEN
            UNCHANGED users /\ resp' = R(500, ErrKeys, "Error updating user role")
       ELSE IF userId \notin Users THEN
            UNCHANGED users /\ resp' = R(404, MsgKeys, "User not found")
       ELSE
            /\ users' = [users EXCEPT ![userId].role = role]
            /\ resp' = R(200, DataKeys, "")

\* GET /admin/properties/pending
ListPending(tok, q) ==
    LET g == RunChain(AdminUse, 1, tok, NoUser)
        path == <<"properties", "pending">>
        total == Cardinality({p \in DOMAIN props : props[p].status = "pending"})
    IN
    /\ Dispatch(AdminRoutes, "GET", path) = "listPending"
    /\ UNCHANGED <<users, props, created, reqs>>
    /\ resp' = IF ~g.ok THEN Refused(g, "GET", path)
               ELSE Reply("admin", "GET", path, "listPending", 200, PageKeys, "",
                          g.user, [query |-> q, total |-> total,
                                   pages |-> PagesOf(total, LimitOf(q))])

\* PUT /admin/properties/:propertyId/status
UpdatePropertyStatus(tok, pid, status) ==
    LET g == RunChain(AdminUse, 1, tok, NoUser)
        path == <<"properties", pid, "status">>
        R(st, keys, msg) ==
            Reply("admin", "PUT", path, "updatePropertyStatus", st, keys, msg, g.user,
                  NoData)
    IN
    /\ Dispatch(AdminRoutes, "PUT", path) = "updatePropertyStatus"
    /\ UNCHANGED <<users, created, reqs>>
    /\ IF ~g.ok THEN
            UNCHANGED props /\ resp' = Refused(g, "PUT", path)
       ELSE IF status \notin Statuses THEN
            UNCHANGED props /\ resp' = R(400, ValKeys, "")
       ELSE IF ~IsObjectId(pid) THEN
            UNCHANGED props /\ resp' = R(500, ErrKeys, "Error updating property status")
       ELSE IF pid \notin DOMAIN props THEN
            UNCHANGED props /\ resp' = R(404, MsgKeys, "Property not found")
       ELSE
            /\ props' = [props EXCEPT ![pid].status = status]
            /\ resp' = R(200, DataKeys, "")

\* { $unwind: '$inquiries' }: one document per inquiry of every property
Unwind(docs) ==
    UNION {{<<p, i>> : i \in 1..Len(docs[p].inquiries)} : p \in DOMAIN docs}

\* the stages counted over the properties themselves, without the $unwind
InquiryTotalPerProperty(docs) ==
    LET grouped == IF DOMAIN docs = {} THEN <<>>
                   ELSE <<[count |-> Cardinality(DOMAIN docs)]>>
    IN  IF Len(grouped) > 0 /\ grouped[1].count # 0 THEN grouped[1].count ELSE 0

\* Property.aggregate([$unwind, $group {count: {$sum: 1}}]) and
\* totalInquiries[0]?.count || 0
InquiryTotal(docs) ==
    LET grouped == IF Unwind(docs) = {} THEN <<>>
                   ELSE <<[count |-> Cardinality(Unwind(docs))]>>
    IN  IF Len(grouped) > 0 /\ grouped[1].count # 0 THEN grouped[1].count ELSE 0

\* GET /admin/dashboard
Dashboard(tok) ==
    LET g == RunChain(AdminUse, 1, tok, NoUser)
        Count(status) == Cardinality({p \in DOMAIN props : props[p].status = status})
    IN
    /\ Dispatch(AdminRoutes, "GET", <<"dashboard">>) = "dashboard"
    /\ UNCHANGED <<users, props, created, reqs>>
    /\ resp' = IF ~g.ok THEN Refused(g, "GET", <<"dashboard">>)
               ELSE Reply("admin", "GET", <<"dashboard">>, "dashboard", 200, DataKeys, "",
                          g.user,
                          [totalUsers |-> Cardinality(Users),
                           totalProperties |-> Cardinality(DOMAIN props),
                           pendingProperties |-> Count("pending"),
                           activeProperties |-> Count("active"),
                           totalAgents |-> Cardinality({u \in Users : users[u].role = "agent"}),
                           totalInquiries |-> InquiryTotal(props)])

\* GET /admin/activities: the sizes of the three feeds, 5 entries at most each
Activities(tok) ==
    LET g == RunChain(AdminUse, 1, tok, NoUser) IN
    /\ Dispatch(AdminRoutes, "GET", <<"activities">>) = "activities"
    /\ UNCHANGED <<users, props, created, reqs>>
    /\ resp' = IF ~g.ok THEN Refused(g, "GET", <<"activities">>)
               ELSE Reply("admin", "GET", <<"activities">>, "activities", 200, DataKeys, "",
                          g.user,
                          [recentProperties |-> Min(Cardinality(DOMAIN props), 5),
                           recentUsers |-> Min(Cardinality(Users), 5),
                           recentInquiries |-> Min(Cardinality(Unwind(props)), 5)])

\* the steps of the property router that create, update and delete, with
\* at most n requests in flight
MutateNext(n, creators, toks, segs, bodies, cap) ==
    \/ \E tok \in creators, body \in bodies : CreateProperty(tok, body, cap)
    \/ \E tok \in toks, seg \in segs, body \in {[title |-> "t"], BaseBody(1)} :
            UpdateRead(n, tok, seg, body)
    \/ \E r \in InFlight, body \in bodies : UpdateWrite(r, body)
    \/ \E tok \in toks, seg \in segs : DeleteRead(n, tok, seg)
    \/ \E r \in InFlight : DeleteWrite(r)

\* the steps of GET /properties/<seg>
FetchNext(n, segs) ==
    \/ \E seg \in segs, q \in {"", "t"} : GetBySegment(n, seg, q)
    \/ \E r \in InFlight : GetPropertySave(r)

\* the property router, requests interleaving at their awaits
Next ==
    \/ MutateNext(MaxSlots, Tokens, Tokens, RacedSegs, Bodies, MaxRaced)
    \/ FetchNext(MaxSlots, RacedSegs)
    \/ \E tok \in {"u2", "anon"}, seg \in RacedSegs : AddInquiry(tok, seg)

Spec == Init /\ [][Next]_vars

----------------------------------------------------------------------------
(* Claims about the property router *)

IsMutation(r) == r.router = "properties" /\ r.method \in {"PUT", "DELETE"} /\ Len(r.path) = 1

\* this step answers, without a store write pending, a PUT or DELETE on an
\* existing property whose authenticated actor is neither its owner nor admin
OutsiderAnswered ==
    /\ resp' # Pending
    /\ reqs' = reqs
    /\ IsMutation(resp')
    /\ resp'.path[1] \in DOMAIN props
    /\ resp'.user.id \in Users
    /\ props[resp'.path[1]].owner # resp'.user.id
    /\ users[resp'.user.id].role # "admin"

\* the requests this step passes through the ownership check of PUT or DELETE
Admitted ==
    {r \in BagToSet(reqs') :
        r.op \in {"update", "delete"} /\ CopiesIn(r, reqs') > CopiesIn(r, reqs)}

C2_OwnerIsCreator ==
    [][created' # created =>
            /\ created' = created + 1
            /\ DOMAIN props' = DOMAIN props \cup {PropIdSeq[created']}
            /\ resp'.h = "createProperty"
            /\ resp'.user.id \in Users
            /\ props'[PropIdSeq[created']].owner = resp'.user.id]_vars

\* a property was created from a body naming another user as owner
C2_Witness ==
    /\ resp.h = "createProperty"
    /\ resp.status = 201
    /\ resp.data.bodyOwner \in Users \ {resp.user.id}
    /\ resp.data.id \in DOMAIN props

\* C3 as stated: no step changes the owner of an existing property
C3_OwnerImmutable ==
    [][\A p \in DOMAIN props \cap DOMAIN props' : props'[p].owner = props[p].owner]_vars

\* C7 as stated: no step lowers the stored views of a property
C7_ViewsMonotonic ==
    [][\A p \in DOMAIN props \cap DOMAIN props' : props'[p].views >= props[p].views]_vars

\* C8 as stated: GET /properties/search is answered by the search handler,
\* with 400 'Search query is required' when q is missing or empty
C8_SearchDispatched ==
    (resp.router = "properties" /\ resp.method = "GET" /\ resp.path = <<"search">>) =>
        /\ resp.h = "searchProperties"
        /\ resp.data.q = "" => resp.status = 400 /\ resp.message = "Search query is required"

\* the responses of the validation branches (validationResult not empty)
IsValidationFailure(r) ==
    /\ r.status = 400
    /\ r.h \in {"createProperty", "updateProperty", "updateUserRole",
                "updatePropertyStatus", "updateProfile"}

\* C9 as stated: every error response carries a message, and a validation
\* failure carries the field-error list as well
C9_ErrorsCarryMessage ==
    resp.status \in {400, 403, 404, 500} =>
        /\ "message" \in resp.keys
        /\ IsValidationFailure(resp) => "errors" \in resp.keys

----------------------------------------------------------------------------
(* Claims about the favorites routes *)

Entries(favs) == {favs[i] : i \in 1..Len(favs)}
NoDuplicates(favs) == Cardinality(Entries(favs)) = Len(favs)

\* this step answers a favorites request of an authenticated caller
FavoriteAnswered(method) ==
    /\ resp' # Pending
    /\ resp'.router = "users"
    /\ resp'.method = method
    /\ resp'.user.id \in Users

\* C4 as stated: with requests processed one at a time, adding a property
\* already in the caller's favorites gets 400 and removing one that is not
\* there gets 400, and the favorites are unchanged
C4_AsStated ==
    [][ /\ (FavoriteAnswered("POST")
            /\ resp'.path[2] \in Entries(users[resp'.user.id].favorites))
                => resp'.status = 400 /\ users' = users
        /\ (FavoriteAnswered("DELETE")
            /\ resp'.path[2] \notin Entries(users[resp'.user.id].favorites))
                => resp'.status = 400 /\ users' = users ]_vars

\* C4, amended: with requests processed one at a time, adding a property
\* already in the caller's favorites gets 400 when the property still exists
\* and 404 when it has been deleted, removing one that is not there gets 400,
\* the favorites are unchanged in each case, and no list holds a duplicate
C4_NoDuplicateFavorite ==
    [][ /\ (FavoriteAnswered("POST")
            /\ resp'.path[2] \in Entries(users[resp'.user.id].favorites))
                => /\ resp'.status = IF resp'.path[2] \in DOMAIN props THEN 400 ELSE 404
                   /\ users' = users
        /\ (FavoriteAnswered("DELETE")
            /\ resp'.path[2] \notin Entries(users[resp'.user.id].favorites))
                => resp'.status = 400 /\ users' = users
        /\ \A u \in Users : NoDuplicates(users'[u].favorites) ]_vars

\* an add of a property already in the caller's favorites was refused with 400
C4_Witness ==
    /\ resp.h = "addFavorite"
    /\ resp.status = 400
    /\ resp.path[2] \in Entries(users[resp.user.id].favorites)
    /\ resp.path[2] \in DOMAIN props

----------------------------------------------------------------------------
(* Claims about the admin router and the listings *)

AdminHandlers == {AdminRoutes[i].handler : i \in 1..Len(AdminRoutes)}

\* C5: a handler of the admin router runs only for a request whose
\* credential is valid and whose user has role admin; a request that fails
\* either check is answered 401 or 403 by the check and changes nothing
C5_GuardsBeforeHandlers ==
    [][resp'.router = "admin" =>
          LET passes == resp'.user.id \in Users /\ users[resp'.user.id].role = "admin"
          IN  /\ resp'.h \in AdminHandlers => passes
              /\ resp'.h \notin AdminHandlers =>
                    /\ ~passes
                    /\ resp'.status = IF resp'.user.id \in Users THEN 403 ELSE 401
                    /\ UNCHANGED <<users, props, created>>]_vars

\* a role change asked by a user who is not admin was stopped by authorize
C5_Witness ==
    /\ resp.router = "admin"
    /\ resp.method = "PUT"
    /\ resp.h = "authorizeAdmin"
    /\ resp.status = 403
    /\ resp.user.role # "admin"

IsListing(r) == r.h \in {"listProperties", "listUsers", "listPending"} /\ r.status = 200

\* the limit a listing request asks for: the supplied one, or 10
AskedLimit(r) == IF "limit" \in DOMAIN r.data.query THEN r.data.query.limit ELSE 10

\* p is the ceiling of total / limit
IsCeiling(p, total, limit) == p * limit >= total /\ (p - 1) * limit < total

\* C6 as stated: every listing reports pages = ceil(total / limit), which
\* is 0 when total is 0, whatever the limit
C6_AsStated ==
    IsListing(resp) =>
        /\ resp.data.pages.t = "number"
        /\ IsCeiling(resp.data.pages.v, resp.data.total, AskedLimit(resp))
        /\ resp.data.total = 0 => resp.data.pages.v = 0

RECURSIVE SumOfLengths(_, _)
SumOfLengths(docs, ids) ==
    IF ids = {} THEN 0
    ELSE LET p == CHOOSE x \in ids : TRUE
         IN  Len(docs[p].inquiries) + SumOfLengths(docs, ids \ {p})

\* C10: the dashboard's totalInquiries is the sum of the lengths of the
\* inquiries lists of the properties in the store
C10_InquiryTotal ==
    (resp.h = "dashboard" /\ resp.status = 200) =>
        resp.data.totalInquiries = SumOfLengths(props, DOMAIN props)

\* the dashboard counted the inquiries of two properties, one with several
C10_Witness ==
    /\ resp.h = "dashboard"
    /\ resp.status = 200
    /\ resp.data.totalInquiries >= 3
    /\ \E p \in DOMAIN props : Len(props[p].inquiries) = 1

----------------------------------------------------------------------------
(* Specifications of parts of the system *)

\* creation, update and deletion alone, interleaving
MutateOnlyNext ==
    MutateNext(MaxSlots, {"u1", "anon"}, Tokens, RacedSegs,
               {[title |-> "t"], BaseBody(1), Merge(BaseBody(1), [owner |-> "u2"]),
                Merge(BaseBody(1), [status |-> "sold"])},
               MaxRaced)

MutSpec == Init /\ [][MutateOnlyNext]_vars

\* detail fetches alone, interleaving
FetchOnlyNext ==
    \/ \E tok \in Tokens, body \in {BaseBody(1)} : CreateProperty(tok, body, MaxRaced)
    \/ FetchNext(MaxSlots, RacedSegs)
    \/ \E tok \in Tokens, seg \in RacedSegs : DeleteRead(MaxSlots, tok, seg)
    \/ \E r \in InFlight : DeleteWrite(r)

FetchSpec == Init /\ [][FetchOnlyNext]_vars

\* the favorites routes, with properties created and deleted; requests are
\* processed one at a time
FavNext ==
    \/ CreateProperty("u2", BaseBody(1), MaxProps)
    \/ \E seg \in PropIds : DeleteRead(1, "u2", seg)
    \/ \E r \in InFlight : DeleteWrite(r)
    \/ \E tok \in {"u1", "anon"}, pid \in PathSegs : AddFavoriteRead(1, tok, pid)
    \/ \E r \in InFlight : AddFavoriteSave(r)
    \/ \E tok \in {"u1", "anon"}, pid \in PathSegs : RemoveFavoriteRead(1, tok, pid)
    \/ \E r \in InFlight : RemoveFavoriteSave(r)

FavSpec == Init /\ [][FavNext]_vars

\* the admin router, over properties created with inquiries added
AdminNext ==
    \/ CreateProperty("u1", BaseBody(1), MaxProps)
    \/ \E seg \in PropIds : AddInquiry("u2", seg)
    \/ \E tok \in {"a1", "u1", "anon"} : ListUsers(tok, <<>>)
    \/ \E tok \in {"a1", "u1", "anon"}, userId \in {"u1", "a1", "u9", "me"},
          role \in {"user", "admin", "owner"} : UpdateUserRole(tok, userId, role)
    \/ \E tok \in {"a1", "u1", "anon"} : ListPending(tok, <<>>)
    \/ \E tok \in {"a1", "u1", "anon"}, pid \in PathSegs, status \in {"active", "deleted"} :
            UpdatePropertyStatus(tok, pid, status)
    \/ \E tok \in {"a1", "u1", "anon"} : Dashboard(tok)
    \/ \E tok \in {"a1", "u1", "anon"} : Activities(tok)

AdminSpec == Init /\ [][AdminNext]_vars

\* the three paginated listings, over properties created and moderated and
\* roles changed
ListNext ==
    \/ \E body \in {BaseBody(1), BaseBody(2)} : CreateProperty("u1", body, MaxProps)
    \/ \E pid \in PropIds : UpdatePropertyStatus("a1", pid, "active")
    \/ \E role \in {"user", "admin"} : UpdateUserRole("a1", "u1", role)
    \/ \E q \in ListQueries : ListProperties(q)
    \/ \E q \in AdminQueries : ListUsers("a1", q)
    \/ \E q \in LimitQueries : ListPending("a1", q)

ListSpec == Init /\ [][ListNext]_vars
----------------------------------------------------------------------------
(* The filter builder of GET /properties *)

FilterParams ==
    {"propertyType", "listingType", "city", "state", "bedrooms", "bathrooms",
     "amenities", "minPrice", "maxPrice"}

\* request bodies of POST / that differ in every field the filter reads;
\* the third leaves the optional bedrooms and bathrooms out
FilterBodies ==
    { Merge(BaseBody(1),
            [propertyType |-> House, listingType |-> Sale, city |-> Pune,
             state |-> <<"M", "H">>, bedrooms |-> 2, bathrooms |-> 1,
             amenities |-> {Gym}]),
      Merge(BaseBody(2),
            [propertyType |-> Villa, listingType |-> Rent, city |-> Goa,
             state |-> <<"G", "A">>, bedrooms |-> 3, bathrooms |-> 2,
             amenities |-> {Lift}]),
      Merge(BaseBody(2),
            [propertyType |-> House, listingType |-> Rent, city |-> Pune,
             state |-> <<"M", "H">>, amenities |-> {}]) }

\* a parameter left out, or given one of vals
Opt(k, vals) == {<<>>} \cup {[x \in {k} |-> v] : v \in vals}

\* the query strings of GET /properties: every combination of seven of the
\* filter parameters present or absent, every combination of the other two
\* with city and maxPrice, and some with an empty text or a text that is no
\* number
FilterQueries ==
    {Merge(a, Merge(b, Merge(c, Merge(e, Merge(g, Merge(h, i)))))) :
        a \in Opt("propertyType", {House}), b \in Opt("listingType", {Sale}),
        c \in Opt("city", {<<"p", "u">>}), e \in Opt("bedrooms", {<<"2">>}),
        g \in Opt("amenities", {Gym \o <<",">> \o Lift}),
        h \in Opt("minPrice", {<<"2">>}), i \in Opt("maxPrice", {<<"1">>})}
    \cup {Merge(c, Merge(d, Merge(f, i))) :
        c \in Opt("city", {<<"U", "N">>}), d \in Opt("state", {<<"m", "h">>}),
        f \in Opt("bathrooms", {<<"1">>}), i \in Opt("maxPrice", {<<"2">>})}
    \cup {[minPrice |-> <<>>], [minPrice |-> <<>>, city |-> <<"G", "O">>],
          [minPrice |-> <<"x">>], [bedrooms |-> <<"x">>, maxPrice |-> <<"1", "0">>],
          [maxPrice |-> <<"0">>], [maxPrice |-> <<"1", "0">>, minPrice |-> <<"0">>]}

FilterNext ==
    \/ \E body \in FilterBodies : CreateProperty("u1", body, MaxProps)
    \/ \E q \in FilterQueries : ListProperties(q)

FilterSpec == Init /\ [][FilterNext]_vars

\* C11: in every answered listing, a filter parameter that is absent or
\* empty adds no constraint: leaving any parameter out of the query gives a
\* filter that matches every property the listing found; with no parameter
\* every property is found, with minPrice alone (a number) exactly those
\* with price >= min, and with maxPrice alone exactly those with price <= max
C11_OmittingRelaxes ==
    (resp.h = "listProperties" /\ resp.status = 200) =>
        LET q == resp.data.query
            given == {k \in FilterParams : k \in DOMAIN q /\ q[k] # <<>>}
            Omit(k) == [x \in DOMAIN q \ {k} |-> q[x]]
        IN  /\ \A k \in DOMAIN q :
                  /\ ~CastFails(BuildQuery(Omit(k)))
                  /\ resp.data.found \subseteq Find(props, BuildQuery(Omit(k)))
            /\ given = {} => resp.data.found = DOMAIN props
            /\ given = {"minPrice"} =>
                  /\ IsNumeric(q.minPrice)
                  /\ resp.data.found =
                        {p \in DOMAIN props : props[p].price >= JsNumberOf(q.minPrice)}
            /\ given = {"maxPrice"} =>
                  /\ IsNumeric(q.maxPrice)
                  /\ resp.data.found =
                        {p \in DOMAIN props : props[p].price <= JsNumberOf(q.maxPrice)}

\* a listing with minPrice alone found some of the properties and not all
C11_Witness ==
    /\ resp.h = "listProperties"
    /\ resp.status = 200
    /\ DOMAIN resp.data.query = {"minPrice"}
    /\ resp.data.found # {}
    /\ resp.data.found # DOMAIN props

----------------------------------------------------------------------------
(* Claims about the inquiries of a property *)

IsPrefix(a, b) == Len(a) <= Len(b) /\ SubSeq(b, 1, Len(a)) = a

\* C12 as stated: no step on a property that stays in the store shortens or
\* rewrites its inquiries list, and a successful POST /properties/:id/inquiries
\* appends exactly one entry, whose user is the caller
C12_AppendOnly ==
    [][ /\ \A p \in DOMAIN props \cap DOMAIN props' :
              IsPrefix(props[p].inquiries, props'[p].inquiries)
        /\ (resp'.h = "addInquiry" /\ resp'.status = 201) =>
              LET p == resp'.path[1]
              IN  /\ Len(props'[p].inquiries) = Len(props[p].inquiries) + 1
                  /\ props'[p].inquiries[Len(props'[p].inquiries)].user = resp'.user.id ]_vars

----------------------------------------------------------------------------
(* Concurrent favorite-adds *)

\* POST /users/favorites/:propertyId by two users, requests interleaving
\* between the duplicate check and the save
FavRaceNext ==
    \/ CreateProperty("u2", BaseBody(1), MaxRaced)
    \/ \E tok \in {"u1", "u2", "anon"}, pid \in RacedSegs :
            AddFavoriteRead(MaxSlots, tok, pid)
    \/ \E r \in InFlight : AddFavoriteSave(r)

FavRaceSpec == Init /\ [][FavRaceNext]_vars

\* the add-favorite requests whose save this step performs
Saved ==
    {r \in InFlight : r.op = "addFavorite" /\ CopiesIn(r, reqs') < CopiesIn(r, reqs)}

\* C13: nothing guards the save of an add-favorite request that passed the
\* duplicate check: whatever the stored list holds by then, the save appends
\* the id to it and the request is answered 200
C13_SaveUnguarded ==
    [][\A r \in Saved :
          /\ resp'.h = "addFavorite"
          /\ resp'.status = 200
          /\ users'[r.user.id].favorites = Append(users[r.user.id].favorites, r.id)]_vars

\* two adds of p1 by u1 both passed the check and both were answered 200:
\* the list holds p1 twice
C13_Witness ==
    /\ users["u1"].favorites = <<"p1", "p1">>
    /\ resp.h = "addFavorite"
    /\ resp.status = 200
    /\ resp.user.id = "u1"

----------------------------------------------------------------------------
(* The profile route and the roles of users *)

\* text.trim(), over texts whose only white space is " "
RECURSIVE Trim(_)
Trim(text) ==
    IF text = <<>> THEN <<>>
    ELSE IF Head(text) = " " THEN Trim(Tail(text))
    ELSE IF text[Len(text)] = " " THEN Trim(SubSeq(text, 1, Len(text) - 1))
    ELSE text

\* the sanitizers of updateProfileValidation: name is trimmed in req.body
Sanitize(body) ==
    IF "name" \in DOMAIN body THEN Merge(body, [name |-> Trim(body.name)]) ELSE body

\* updateProfileValidation: name, when present, is not empty once trimmed
UpdateProfileValidation(body) == "name" \in DOMAIN body => Trim(body.name) # <<>>

\* the validators of the User schema that findByIdAndUpdate runs: role is
\* one of the three roles
UserSchemaValid(fields) == "role" \in DOMAIN fields => fields.role \in Roles

\* request bodies of PUT /users/profile: a name, an empty or blank one, and
\* ones that name a role
ProfileBodies ==
    { [name |-> <<"n">>], [name |-> <<" ", "n", " ">>], [name |-> <<" ">>],
      [role |-> "admin"], [role |-> "user"], [role |-> "owner"],
      [name |-> <<>>, role |-> "admin"] }

\* PUT /users/profile
UpdateProfile(tok, body) ==
    LET auth == Protect(tok)
        clean == Sanitize(body)
        R(status, keys, msg) ==
            Reply("users", "PUT", <<"profile">>, "updateProfile", status, keys, msg,
                  auth.user, [body |-> body])
    IN
    /\ Dispatch(UserRoutes, "PUT", <<"profile">>) = "updateProfile"
    /\ UNCHANGED <<props, created, reqs>>
    /\ IF ~auth.ok THEN
            UNCHANGED users /\ resp' = R(401, MsgKeys, "Not authorized")
       ELSE IF ~UpdateProfileValidation(body) THEN
            UNCHANGED users /\ resp' = R(400, ValKeys, "")
       ELSE IF ~UserSchemaValid(clean) THEN
            UNCHANGED users /\ resp' = R(500, ErrKeys, "Error updating profile")
       ELSE
            /\ users' = [users EXCEPT ![auth.user.id] = Merge(@, clean)]
            /\ resp' = R(200, DataKeys, "")

\* the profile route, the role change of the admin router and one of its
\* listings
RoleNext ==
    \/ \E tok \in {"u1", "a1", "anon"}, body \in ProfileBodies : UpdateProfile(tok, body)
    \/ \E tok \in {"u1", "a1", "anon"}, userId \in {"u1", "u2", "u9", "me"},
          role \in {"user", "admin", "owner"} : UpdateUserRole(tok, userId, role)
    \/ \E tok \in {"u1", "a1", "anon"} : ListUsers(tok, <<>>)

RoleSpec == Init /\ [][RoleNext]_vars

\* C14 as stated: a step changes the role of a user only when it is PUT
\* /admin/users/:userId/role answered for an actor who has role admin, so a
\* user who is not admin never comes to run a handler of the admin router
C14_RoleOnlyByAdmin ==
    [][(\E u \in Users : users'[u].role # users[u].role) =>
            /\ resp'.router = "admin"
            /\ resp'.h = "updateUserRole"
            /\ resp'.user.id \in Users
            /\ users[resp'.user.id].role = "admin"]_vars
====
